---- MODULE Spec2Model ----
(***************************************************************************)
(* Model of app.py, the property dashboard relay: the recursive cleaning   *)
(* pass clean_nan_values, the diagnostic find_problematic_field and the    *)
(* /api/properties handler get_properties.                                 *)
(*                                                                         *)
(* Python values are records of one shape, tagged with the Python type     *)
(* name; a str is the sequence of its code points, a dict is the sequence  *)
(* of its keys (insertion order) beside the sequence of its values.        *)
(***************************************************************************)
EXTENDS Integers, Sequences, FiniteSets, TLC

----------------------------------------------------------------------------
(* Bounds of the model.                                                    *)

\* longest str checked as a top-level scalar
MaxStrLen == 4
\* longest str nested in a list or dict
MaxInnerLen == 1
\* longest dict key
MaxKeyLen == 1
\* longest list
MaxArr == 2
\* most entries of a dict
MaxKeys == 2
\* inbound requests handled one after the other
MaxRequests == 2

\* code points strs are drawn from: NUL, TAB, space, 'N', 'a', 'n', DEL,
\* NBSP, superscript two, en dash, right single quotation mark, bullet
Alphabet == {0, 9, 32, 78, 97, 110, 127, 160, 178, 8211, 8217, 8226}
\* code points dict keys are drawn from: NUL, 'a', NBSP
KeyAlphabet == {0, 97, 160}

----------------------------------------------------------------------------
(* Python values.                                                          *)

PyVal(t, b, n, f, s, keys, items) ==
    [t |-> t, b |-> b, n |-> n, f |-> f, s |-> s, keys |-> keys, items |-> items]

PyNone == PyVal("NoneType", FALSE, 0, "", <<>>, <<>>, <<>>)
PyBool(b) == PyVal("bool", b, 0, "", <<>>, <<>>, <<>>)
PyInt(n) == PyVal("int", FALSE, n, "", <<>>, <<>>, <<>>)
\* a float: f is "finite" (the value n + 0.5), "nan", "inf" or "-inf"
PyFloat(f, n) == PyVal("float", FALSE, n, f, <<>>, <<>>, <<>>)
PyStr(s) == PyVal("str", FALSE, 0, "", s, <<>>, <<>>)
PyList(items) == PyVal("list", FALSE, 0, "", <<>>, <<>>, items)
\* keys[i] is a code point sequence, items[i] the value stored under it
PyDict(keys, items) == PyVal("dict", FALSE, 0, "", <<>>, keys, items)

Range(q) == {q[i] : i \in DOMAIN q}

StrsUpTo(alphabet, n) == UNION {[1..k -> alphabet] : k \in 0..n}

SeqsUpTo(S, n) == UNION {[1..k -> S] : k \in 0..n}

\* key sequences of a dict: no key twice
KeySeqs(n) ==
    {ks \in SeqsUpTo(StrsUpTo(KeyAlphabet, MaxKeyLen), n) :
        \A i, j \in DOMAIN ks : i # j => ks[i] # ks[j]}

Numbers ==
    {PyInt(1), PyFloat("finite", 1), PyFloat("nan", 0),
     PyFloat("inf", 0), PyFloat("-inf", 0)}

Scalars(n) ==
    {PyNone, PyBool(TRUE), PyBool(FALSE)} \cup Numbers
        \cup {PyStr(s) : s \in StrsUpTo(Alphabet, n)}

DictsOver(S, n) ==
    UNION {{PyDict(ks, vs) : vs \in [1..Len(ks) -> S]} : ks \in KeySeqs(n)}

ListsOver(S, n) == {PyList(q) : q \in SeqsUpTo(S, n)}

\* lists and dicts of scalars whose strs are no longer than n
Flat(n) == ListsOver(Scalars(n), MaxArr) \cup DictsOver(Scalars(n), MaxKeys)

\* a list or dict of at most one such scalar
Inner(n) == ListsOver(Scalars(n), 1) \cup DictsOver(Scalars(n), 1)

\* one level deeper: a list or dict holding at most one of those
Nested(n) == ListsOver(Inner(n), 1) \cup DictsOver(Inner(n), 1)

\* the value trees the two functions are run on: scalars with strs up to
\* n long, and lists and dicts with strs up to m long
Trees(n, m) == Scalars(n) \cup Flat(m) \cup Nested(m)

----------------------------------------------------------------------------
(* str methods.                                                            *)

\* str.lower() on one code point: 'A'..'Z' to 'a'..'z' (no code point of
\* Alphabet outside ASCII has a lower-case form of its own)
LowerChar(c) == IF c >= 65 /\ c <= 90 THEN c + 32 ELSE c

Lower(s) == [i \in DOMAIN s |-> LowerChar(s[i])]

\* str.isspace() of one code point: what str.strip() removes
IsSpace(c) ==
    \/ c >= 9 /\ c <= 13
    \/ c >= 28 /\ c <= 32
    \/ c \in {133, 160, 5760, 8232, 8233, 8239, 8287, 12288}
    \/ c >= 8192 /\ c <= 8202

RECURSIVE LStrip(_)
LStrip(s) == IF s # <<>> /\ IsSpace(Head(s)) THEN LStrip(Tail(s)) ELSE s

RECURSIVE RStrip(_)
RStrip(s) ==
    IF s # <<>> /\ IsSpace(s[Len(s)]) THEN RStrip(SubSeq(s, 1, Len(s) - 1)) ELSE s

Strip(s) == RStrip(LStrip(s))

\* s.replace(c, r) for a one-character c
Replace[s \in Seq(Nat), c \in Nat, r \in Seq(Nat)] ==
    IF s = <<>> THEN <<>>
    ELSE (IF Head(s) = c THEN r ELSE <<Head(s)>>) \o Replace[Tail(s), c, r]

\* s.replace(c, '') chained over every code point c of cs: each call
\* removes every occurrence of its c, so what is left is s without them
RemoveAll(s, cs) == SelectSeq(s, LAMBDA c : c \notin Range(cs))

----------------------------------------------------------------------------
(* clean_nan_values.                                                       *)

\* 'nan'
W_nan == <<110, 97, 110>>
\* 'none'
W_none == <<110, 111, 110, 101>>
\* 'null'
W_null == <<110, 117, 108, 108>>
\* 'infinity'
W_infinity == <<105, 110, 102, 105, 110, 105, 116, 121>>
\* 'inf'
W_inf == <<105, 110, 102>>
\* '-inf'
W_neg_inf == <<45, 105, 110, 102>>
\* 'undefined'
W_undefined == <<117, 110, 100, 101, 102, 105, 110, 101, 100>>
\* 'None'
L_None == <<78, 111, 110, 101>>
\* 'NaN'
L_NaN == <<78, 97, 78>>
\* ' sqm'
SQM == <<32, 115, 113, 109>>

\* the list the lower-cased value is looked up in
SentinelWords ==
    {W_nan, W_none, W_null, W_infinity, W_inf, W_neg_inf, W_undefined}

\* the test guarding "Converting invalid string to None"
IsInvalidString(value) ==
    \/ Lower(value) \in SentinelWords
    \/ Strip(value) = <<>>
    \/ value = L_None
    \/ value = L_NaN

\* the two chained replace calls on problematic Unicode characters
ReplaceUnicode(s) ==
    Replace[Replace[Replace[Replace[Replace[s, 160, <<32>>], 178, SQM],
                            8211, <<45>>], 8217, <<39>>], 8226, <<45>>]

\* ord(char) >= 32 or char in '\t\n\r'
KeepChar(c) == c >= 32 \/ c \in {9, 10, 13}

\* ''.join(char for char in cleaned_value if ...)
JoinKept(s) == SelectSeq(s, KeepChar)

\* the code points removed one by one after the join
RemainingProblematic ==
    <<0, 1, 2, 3, 4, 5, 6, 7, 8, 11, 12, 14, 15, 16, 17, 18, 19, 20, 21, 22,
      23, 24, 25, 26, 27, 28, 29, 30, 31>>

\* the else branch of the str case: what a kept str becomes
CleanedValue(value) ==
    RemoveAll(JoinKept(ReplaceUnicode(value)), RemainingProblematic)

\* the str case, the same code for a dict's str value and for a str scalar
CleanStr(value) ==
    IF IsInvalidString(value) THEN PyNone ELSE PyStr(CleanedValue(value))

\* the float case
CleanFloat(data) == IF data.f \in {"nan", "inf", "-inf"} THEN PyNone ELSE data

RECURSIVE clean_nan_values(_)
clean_nan_values(data) ==
    IF data.t = "dict" THEN
        \* cleaned[key] = ...: every key is stored as it is, in order
        PyDict(data.keys,
               [i \in DOMAIN data.items |->
                    IF data.items[i].t = "str"
                    THEN CleanStr(data.items[i].s)
                    ELSE clean_nan_values(data.items[i])])
    ELSE IF data.t = "list" THEN
        PyList([i \in DOMAIN data.items |-> clean_nan_values(data.items[i])])
    ELSE IF data.t = "float" THEN CleanFloat(data)
    ELSE IF data.t = "str" THEN CleanStr(data.s)
    ELSE data

----------------------------------------------------------------------------
(* repr() and str() of a value.                                            *)

\* str(n) of a natural number
RECURSIVE IntToStr(_)
IntToStr(n) ==
    IF n < 10 THEN <<48 + n>> ELSE IntToStr(n \div 10) \o <<48 + (n % 10)>>

\* one hexadecimal digit, lower case
HexDigit(d) == IF d < 10 THEN 48 + d ELSE 87 + d

\* str.isprintable() of one code point (exact below 256; above, the
\* space, format and separator code points near Alphabet's)
IsPrintable(c) ==
    /\ c >= 32
    /\ ~(c >= 127 /\ c <= 160)
    /\ c # 173
    /\ c \notin {5760, 12288, 65279}
    /\ ~(c >= 8192 /\ c <= 8207)
    /\ ~(c >= 8232 /\ c <= 8239)
    /\ ~(c >= 8287 /\ c <= 8303)

\* one code point inside a repr, quoted with quote
ReprChar(c, quote) ==
    IF c = 92 \/ c = quote THEN <<92, c>>
    ELSE IF c = 9 THEN <<92, 116>>
    ELSE IF c = 10 THEN <<92, 110>>
    ELSE IF c = 13 THEN <<92, 114>>
    ELSE IF IsPrintable(c) THEN <<c>>
    ELSE IF c < 256 THEN <<92, 120, HexDigit(c \div 16), HexDigit(c % 16)>>
    ELSE <<92, 117, HexDigit(c \div 4096), HexDigit((c \div 256) % 16),
           HexDigit((c \div 16) % 16), HexDigit(c % 16)>>

RECURSIVE ReprChars(_, _)
ReprChars(s, quote) ==
    IF s = <<>> THEN <<>> ELSE ReprChar(Head(s), quote) \o ReprChars(Tail(s), quote)

\* repr(s) of a str: double quotes only when s holds ' and no "
ReprStr(s) ==
    LET quote == IF 39 \in Range(s) /\ 34 \notin Range(s) THEN 34 ELSE 39
    IN  <<quote>> \o ReprChars(s, quote) \o <<quote>>

\* 'True'
R_True == <<84, 114, 117, 101>>
\* 'False'
R_False == <<70, 97, 108, 115, 101>>
\* '.5'
R_half == <<46, 53>>

RECURSIVE PyRepr(_)
RECURSIVE ReprItems(_, _)
RECURSIVE ReprEntries(_, _)

\* the items of a list from the i-th on, joined with ', '
ReprItems(data, i) ==
    IF i > Len(data.items) THEN <<>>
    ELSE (IF i > 1 THEN <<44, 32>> ELSE <<>>)
            \o PyRepr(data.items[i]) \o ReprItems(data, i + 1)

\* the entries of a dict from the i-th on, key: value joined with ', '
ReprEntries(data, i) ==
    IF i > Len(data.keys) THEN <<>>
    ELSE (IF i > 1 THEN <<44, 32>> ELSE <<>>)
            \o ReprStr(data.keys[i]) \o <<58, 32>>
            \o PyRepr(data.items[i]) \o ReprEntries(data, i + 1)

\* repr(data)
PyRepr(data) ==
    IF data.t = "NoneType" THEN L_None
    ELSE IF data.t = "bool" THEN (IF data.b THEN R_True ELSE R_False)
    ELSE IF data.t = "int" THEN IntToStr(data.n)
    ELSE IF data.t = "float" THEN
        (IF data.f = "nan" THEN W_nan
         ELSE IF data.f = "inf" THEN W_inf
         ELSE IF data.f = "-inf" THEN W_neg_inf
         ELSE IntToStr(data.n) \o R_half)
    ELSE IF data.t = "str" THEN ReprStr(data.s)
    ELSE IF data.t = "list" THEN <<91>> \o ReprItems(data, 1) \o <<93>>
    ELSE <<123>> \o ReprEntries(data, 1) \o <<125>>

\* str(data): the str itself, the repr of anything else
StrOf(data) == IF data.t = "str" THEN data.s ELSE PyRepr(data)

\* s[:n]
Prefix(s, n) == SubSeq(s, 1, IF Len(s) < n THEN Len(s) ELSE n)

----------------------------------------------------------------------------
(* find_problematic_field.  json.dumps(value) of a str is a library call   *)
(* the function guards with try/except: raising is the set of strs it      *)
(* raises on.                                                              *)

\* "String field '"
M_string_field == <<83, 116, 114, 105, 110, 103, 32, 102, 105, 101, 108, 100, 32, 39>>

\* the slice shown of a problematic str
FieldPreviewLen == 100

\* f"String field '{key}': {repr(value[:100])}"
FieldDescription(key, value) ==
    PyStr(M_string_field \o key \o <<39, 58, 32>>
            \o ReprStr(Prefix(value, FieldPreviewLen)))

\* "if result:" on what find_problematic_field returned
Truthy(result) == result.t = "str" /\ result.s # <<>>

RECURSIVE find_problematic_field(_, _)
RECURSIVE FindInItems(_, _, _)
RECURSIVE FindInList(_, _, _)

\* the loop over data.items() from the i-th entry on
FindInItems(data, i, raising) ==
    IF i > Len(data.keys) THEN PyNone
    ELSE LET key == data.keys[i]
             value == data.items[i]
             \* find_problematic_field(value) and find_problematic_field(item)
             \* are called for a dict and for the items of a list, and what
             \* they return is dropped
             dropped == IF value.t = "dict"
                        THEN <<find_problematic_field(value, raising)>>
                        ELSE IF value.t = "list"
                        THEN [k \in DOMAIN value.items |->
                                find_problematic_field(value.items[k], raising)]
                        ELSE <<>>
         IN  IF value.t = "str" /\ value.s \in raising
             THEN FieldDescription(key, value.s)
             ELSE FindInItems(data, i + 1, raising)

\* the loop over a list from the i-th item on
FindInList(data, i, raising) ==
    IF i > Len(data.items) THEN PyNone
    ELSE LET result == find_problematic_field(data.items[i], raising)
         IN  IF Truthy(result) THEN result ELSE FindInList(data, i + 1, raising)

find_problematic_field(data, raising) ==
    IF data.t = "dict" THEN FindInItems(data, 1, raising)
    ELSE IF data.t = "list" THEN FindInList(data, 1, raising)
    ELSE PyNone

----------------------------------------------------------------------------
(* State.                                                                  *)

VARIABLES
    pc,                 \* where the request handler, or the function run, is
    args,               \* request.args of the request being handled
    calls,              \* the params of each requests.get made for it
    outcome,            \* how requests.get ended: "response" or the exception
    response,           \* what requests.get returned
    data,               \* the parsed body; the tree given to a function run
    cleaned_data,       \* clean_nan_values(data)
    recleaned,          \* clean_nan_values(cleaned_data)
    problematic_field,  \* what find_problematic_field returned
    raising,            \* the strs json.dumps raised on when it was asked
    replies,            \* the (status, body) pairs returned for the request
    served              \* requests answered so far

vars == <<pc, args, calls, outcome, response, data, cleaned_data, recleaned,
          problematic_field, raising, replies, served>>

\* strs json.dumps may be found to raise on: 'a', 'n'
RaisingCandidates == {<<97>>, <<110>>}

----------------------------------------------------------------------------
(* The /api/properties handler, get_properties.                            *)

\* 'error'
K_error == <<101, 114, 114, 111, 114>>
\* 'details'
K_details == <<100, 101, 116, 97, 105, 108, 115>>
\* 'status_code'
K_status_code == <<115, 116, 97, 116, 117, 115, 95, 99, 111, 100, 101>>
\* 'response_length'
K_response_length == <<114, 101, 115, 112, 111, 110, 115, 101, 95, 108, 101, 110, 103, 116, 104>>
\* 'response_preview'
K_response_preview == <<114, 101, 115, 112, 111, 110, 115, 101, 95, 112, 114, 101, 118, 105, 101, 119>>
\* 'data_size'
K_data_size == <<100, 97, 116, 97, 95, 115, 105, 122, 101>>
\* 'data_preview'
K_data_preview == <<100, 97, 116, 97, 95, 112, 114, 101, 118, 105, 101, 119>>
\* 'original_response_size'
K_original_response_size == <<111, 114, 105, 103, 105, 110, 97, 108, 95, 114, 101, 115, 112, 111, 110, 115, 101, 95, 115, 105, 122, 101>>
\* 'error_type'
K_error_type == <<101, 114, 114, 111, 114, 95, 116, 121, 112, 101>>
\* 'results'
K_results == <<114, 101, 115, 117, 108, 116, 115>>
\* 'suburb parameter is required'
M_suburb_required == <<115, 117, 98, 117, 114, 98, 32, 112, 97, 114, 97, 109, 101, 116, 101, 114, 32, 105, 115, 32, 114, 101, 113, 117, 105, 114, 101, 100>>
\* 'Request timed out'
M_timed_out == <<82, 101, 113, 117, 101, 115, 116, 32, 116, 105, 109, 101, 100, 32, 111, 117, 116>>
\* 'Request failed: '
M_request_failed == <<82, 101, 113, 117, 101, 115, 116, 32, 102, 97, 105, 108, 101, 100, 58, 32>>
\* 'Internal server error: '
M_internal_error == <<73, 110, 116, 101, 114, 110, 97, 108, 32, 115, 101, 114, 118, 101, 114, 32, 101, 114, 114, 111, 114, 58, 32>>
\* 'API request failed with status '
M_api_failed == <<65, 80, 73, 32, 114, 101, 113, 117, 101, 115, 116, 32, 102, 97, 105, 108, 101, 100, 32, 119, 105, 116, 104, 32, 115, 116, 97, 116, 117, 115, 32>>
\* 'Invalid JSON after cleaning: '
M_invalid_after == <<73, 110, 118, 97, 108, 105, 100, 32, 74, 83, 79, 78, 32, 97, 102, 116, 101, 114, 32, 99, 108, 101, 97, 110, 105, 110, 103, 58, 32>>
\* 'API returned invalid JSON: '
M_api_invalid == <<65, 80, 73, 32, 114, 101, 116, 117, 114, 110, 101, 100, 32, 105, 110, 118, 97, 108, 105, 100, 32, 74, 83, 79, 78, 58, 32>>
\* 'Error processing response: '
M_error_processing == <<69, 114, 114, 111, 114, 32, 112, 114, 111, 99, 101, 115, 115, 105, 110, 103, 32, 114, 101, 115, 112, 111, 110, 115, 101, 58, 32>>
\* 'No response text'
M_no_response_text == <<78, 111, 32, 114, 101, 115, 112, 111, 110, 115, 101, 32, 116, 101, 120, 116>>
\* 'No data'
M_no_data == <<78, 111, 32, 100, 97, 116, 97>>
\* 'house'
S_house == <<104, 111, 117, 115, 101>>
\* 'unit'
S_unit == <<117, 110, 105, 116>>
\* 'Belmont'
S_Belmont == <<66, 101, 108, 109, 111, 110, 116>>
\* "' object has no attribute 'get'"
M_no_attribute_get == <<39, 32, 111, 98, 106, 101, 99, 116, 32, 104, 97, 115, 32, 110, 111, 32, 97, 116, 116, 114, 105, 98, 117, 116, 101, 32, 39, 103, 101, 116, 39>>
\* "object of type '"
M_object_of_type == <<111, 98, 106, 101, 99, 116, 32, 111, 102, 32, 116, 121, 112, 101, 32, 39>>
\* "' has no len()"
M_has_no_len == <<39, 32, 104, 97, 115, 32, 110, 111, 32, 108, 101, 110, 40, 41>>
\* 'ValueError'
N_ValueError == <<86, 97, 108, 117, 101, 69, 114, 114, 111, 114>>
\* 'NoneType'
T_NoneType == <<78, 111, 110, 101, 84, 121, 112, 101>>
\* 'bool'
T_bool == <<98, 111, 111, 108>>
\* 'int'
T_int == <<105, 110, 116>>
\* 'float'
T_float == <<102, 108, 111, 97, 116>>
\* 'str'
T_str == <<115, 116, 114>>
\* 'list'
T_list == <<108, 105, 115, 116>>
\* 'dict'
T_dict == <<100, 105, 99, 116>>

\* type(data).__name__ as a str
TypeName(v) ==
    CASE v.t = "NoneType" -> T_NoneType
      [] v.t = "bool" -> T_bool
      [] v.t = "int" -> T_int
      [] v.t = "float" -> T_float
      [] v.t = "str" -> T_str
      [] v.t = "list" -> T_list
      [] v.t = "dict" -> T_dict

StatusOK == 200
StatusBadRequest == 400
StatusServerError == 500
StatusGatewayTimeout == 504
\* the slice of response.text shown in an error body
PreviewLen == 1000

\* (body, status) as returned by the view
Reply(body, status) == [status |-> status, body |-> body]

\* request.args.get(name) and request.args.get(name, default)
ArgGet(a, name, default) == IF a[name].t = "NoneType" THEN default ELSE a[name]

\* a test for None alone, which lets an empty suburb through
FalsyNoneOnly(v) == v.t = "NoneType"

\* "not suburb": None and '' are both falsy
Falsy(v) == v.t = "NoneType" \/ (v.t = "str" /\ v.s = <<>>)

NoArgs == [suburb |-> PyNone, property_type |-> PyNone]

NoResponse ==
    [status_code |-> 0, text |-> <<>>, decodes |-> FALSE, json |-> PyNone,
     error |-> <<>>]

----------------------------------------------------------------------------
(* The environment of the handler: requests and upstream responses.        *)

\* longest str in an upstream body
MaxBodyStrLen == 1
\* longest short response text
MaxTextLen == 1

\* code points of upstream body strs: NUL, 'a', superscript two
BodyAlphabet == {0, 97, 178}
\* code points of response texts: NUL, 'a'
TextAlphabet == {0, 97}

\* the suburb and property_type a request may carry (None: not given)
RequestArgs ==
    [suburb : {PyNone, PyStr(<<>>), PyStr(S_Belmont)},
     property_type : {PyNone, PyStr(S_unit)}]

\* str(e) of an exception of the environment: '?', '!'
ErrorTexts == {<<63>>, <<33>>}

\* a text longer than the preview
LongText == [i \in 1..(PreviewLen + 1) |-> 97]

Texts == StrsUpTo(TextAlphabet, MaxTextLen) \cup {LongText}

BodyLeaves ==
    {PyNone, PyInt(1), PyFloat("nan", 0)}
        \cup {PyStr(s) : s \in StrsUpTo(BodyAlphabet, MaxBodyStrLen)}

\* what response.json() may return: objects with and without 'results',
\* arrays and scalars
UpstreamBodies ==
    BodyLeaves
        \cup {PyList(q) : q \in SeqsUpTo(BodyLeaves, 1)}
        \cup {PyDict(<<>>, <<>>)}
        \cup {PyDict(<<K_results>>, <<v>>) : v \in BodyLeaves}
        \cup {PyDict(<<K_results>>, <<PyList(q)>>) : q \in SeqsUpTo(BodyLeaves, 1)}
        \cup {PyDict(<<<<97>>>>, <<v>>) : v \in BodyLeaves}

UpstreamStatuses == {200, 404, 503}

\* a response: a status other than 200 is never parsed; a 200 body either
\* fails to decode (an empty text always does) or decodes to a value
Responses ==
    {[status_code |-> c, text |-> t, decodes |-> FALSE, json |-> PyNone,
      error |-> <<>>] : c \in UpstreamStatuses \ {StatusOK}, t \in Texts}
    \cup
    {[status_code |-> StatusOK, text |-> t, decodes |-> FALSE, json |-> PyNone,
      error |-> e] : t \in Texts, e \in ErrorTexts}
    \cup
    {[status_code |-> StatusOK, text |-> t, decodes |-> TRUE, json |-> j,
      error |-> <<>>] : t \in Texts \ {<<>>}, j \in UpstreamBodies}

----------------------------------------------------------------------------
(* get_properties, step by step.                                           *)

Init ==
    /\ pc = "idle"
    /\ args = NoArgs
    /\ calls = <<>>
    /\ outcome = "none"
    /\ response = NoResponse
    /\ data = PyNone
    /\ cleaned_data = PyNone
    /\ recleaned = PyNone
    /\ problematic_field = PyNone
    /\ raising = {}
    /\ replies = <<>>
    /\ served = 0

\* the view returns (body, status): the request is answered
Return(body, status) ==
    /\ replies' = Append(replies, Reply(body, status))
    /\ served' = served + 1
    /\ pc' = "done"

\* a request arrives; nothing of the request before it is kept
Receive ==
    /\ pc \in {"idle", "done"}
    /\ served < MaxRequests
    /\ \E a \in RequestArgs : args' = a
    /\ pc' = "args"
    /\ calls' = <<>>
    /\ outcome' = "none"
    /\ response' = NoResponse
    /\ data' = PyNone
    /\ cleaned_data' = PyNone
    /\ problematic_field' = PyNone
    /\ raising' = {}
    /\ replies' = <<>>
    /\ UNCHANGED <<recleaned, served>>

suburb == ArgGet(args, "suburb", PyNone)

property_type == ArgGet(args, "property_type", PyStr(S_house))

\* if not suburb: return 400
Validate ==
    /\ pc = "args"
    /\ IF Falsy(suburb)
       THEN /\ Return(PyDict(<<K_error>>, <<PyStr(M_suburb_required)>>),
                      StatusBadRequest)
       ELSE /\ pc' = "fetch"
            /\ UNCHANGED <<replies, served>>
    /\ UNCHANGED <<args, calls, outcome, response, data, cleaned_data, recleaned,
                   problematic_field, raising>>

\* the params of the one requests.get
Params == [suburb |-> suburb, property_type |-> property_type]

\* requests.get returns a response
FetchResponse ==
    /\ pc = "fetch"
    /\ calls' = Append(calls, Params)
    /\ outcome' = "response"
    /\ \E r \in Responses : response' = r
    /\ pc' = "status"
    /\ UNCHANGED <<args, data, cleaned_data, recleaned, problematic_field,
                   raising, replies, served>>

\* requests.get raises requests.exceptions.Timeout
FetchTimeout ==
    /\ pc = "fetch"
    /\ calls' = Append(calls, Params)
    /\ outcome' = "Timeout"
    /\ Return(PyDict(<<K_error>>, <<PyStr(M_timed_out)>>), StatusGatewayTimeout)
    /\ UNCHANGED <<args, response, data, cleaned_data, recleaned,
                   problematic_field, raising>>

\* requests.get raises another requests.exceptions.RequestException
FetchRequestException ==
    /\ pc = "fetch"
    /\ calls' = Append(calls, Params)
    /\ outcome' = "RequestException"
    /\ \E e \in ErrorTexts :
        Return(PyDict(<<K_error>>, <<PyStr(M_request_failed \o e)>>),
               StatusServerError)
    /\ UNCHANGED <<args, response, data, cleaned_data, recleaned,
                   problematic_field, raising>>

\* requests.get raises an exception that is no RequestException
FetchException ==
    /\ pc = "fetch"
    /\ calls' = Append(calls, Params)
    /\ outcome' = "Exception"
    /\ \E e \in ErrorTexts :
        Return(PyDict(<<K_error>>, <<PyStr(M_internal_error \o e)>>),
               StatusServerError)
    /\ UNCHANGED <<args, response, data, cleaned_data, recleaned,
                   problematic_field, raising>>

\* the body returned for a status other than 200
FailedBody ==
    PyDict(<<K_error, K_details>>,
           <<PyStr(M_api_failed \o IntToStr(response.status_code)),
             PyStr(response.text)>>)

\* if response.status_code == 200: ... else: return the upstream's status
CheckStatus ==
    /\ pc = "status"
    /\ IF response.status_code = StatusOK
       THEN /\ pc' = "json"
            /\ UNCHANGED <<replies, served>>
       ELSE Return(FailedBody, response.status_code)
    /\ UNCHANGED <<args, calls, outcome, response, data, cleaned_data, recleaned,
                   problematic_field, raising>>

\* the preview without its slice: the whole of response.text
ResponsePreviewUncut ==
    IF response.text # <<>> THEN response.text ELSE M_no_response_text

\* response.text[:1000] if response.text else 'No response text'
ResponsePreview ==
    IF response.text # <<>> THEN Prefix(response.text, PreviewLen)
    ELSE M_no_response_text

\* the body of "except json.JSONDecodeError"
InvalidJsonBody ==
    PyDict(<<K_error, K_status_code, K_response_length, K_response_preview>>,
           <<PyStr(M_api_invalid \o response.error),
             PyInt(response.status_code),
             PyInt(Len(response.text)),
             PyStr(ResponsePreview)>>)

\* the body of the inner "except Exception", e the str of the exception
ProcessingErrorBody(e) ==
    PyDict(<<K_error, K_response_length, K_status_code, K_response_preview>>,
           <<PyStr(M_error_processing \o e),
             PyInt(Len(response.text)),
             PyInt(response.status_code),
             PyStr(ResponsePreview)>>)

\* data = response.json()
ParseJson ==
    /\ pc = "json"
    /\ IF response.decodes
       THEN /\ data' = response.json
            /\ pc' = "count"
            /\ UNCHANGED <<replies, served>>
       ELSE /\ Return(InvalidJsonBody, StatusServerError)
            /\ UNCHANGED data
    /\ UNCHANGED <<args, calls, outcome, response, cleaned_data, recleaned,
                   problematic_field, raising>>

\* d.get(key, default) of a dict
RECURSIVE DictGetFrom(_, _, _, _)
DictGetFrom(d, key, default, i) ==
    IF i > Len(d.keys) THEN default
    ELSE IF d.keys[i] = key THEN d.items[i]
    ELSE DictGetFrom(d, key, default, i + 1)

DictGet(d, key, default) == DictGetFrom(d, key, default, 1)

\* the types len() accepts
HasLen(v) == v.t \in {"str", "list", "dict"}

\* what len(data.get('results', [])) raises, as str(e); <<>> when it
\* raises nothing
CountError ==
    IF data.t # "dict"
    THEN <<39>> \o TypeName(data) \o M_no_attribute_get
    ELSE LET results == DictGet(data, K_results, PyList(<<>>))
         IN  IF HasLen(results) THEN <<>>
             ELSE M_object_of_type \o TypeName(results) \o M_has_no_len

\* logger.info(f"Successfully fetched {len(data.get('results', []))} ...")
CountResults ==
    /\ pc = "count"
    /\ IF CountError = <<>>
       THEN /\ pc' = "clean"
            /\ UNCHANGED <<replies, served>>
       ELSE Return(ProcessingErrorBody(CountError), StatusServerError)
    /\ UNCHANGED <<args, calls, outcome, response, data, cleaned_data, recleaned,
                   problematic_field, raising>>

\* cleaned_data = clean_nan_values(data)
Clean ==
    /\ pc = "clean"
    /\ cleaned_data' = clean_nan_values(data)
    /\ pc' = "dumps"
    /\ UNCHANGED <<args, calls, outcome, response, data, recleaned, problematic_field,
                   raising, replies, served>>

\* json.dumps(cleaned_data, ensure_ascii=False) returns: jsonify(cleaned_data)
DumpsOk ==
    /\ pc = "dumps"
    /\ Return(cleaned_data, StatusOK)
    /\ UNCHANGED <<args, calls, outcome, response, data, cleaned_data, recleaned,
                   problematic_field, raising>>

\* the body returned when json.dumps raised, e the str of the exception
DebugBody(e) ==
    LET shown == StrOf(cleaned_data)
    IN  PyDict(<<K_error, K_data_size, K_data_preview,
                 K_original_response_size, K_error_type>>,
               <<PyStr(M_invalid_after \o e),
                 PyInt(Len(shown)),
                 PyStr(IF shown # <<>> THEN Prefix(shown, PreviewLen)
                       ELSE M_no_data),
                 PyInt(Len(response.text)),
                 PyStr(N_ValueError)>>)

\* json.dumps(cleaned_data, ensure_ascii=False) raises: the field is looked
\* for, for the log, and the debugging body is returned with status 500
DumpsRaises ==
    /\ pc = "dumps"
    /\ \E bad \in SUBSET RaisingCandidates :
        /\ raising' = bad
        /\ problematic_field' = find_problematic_field(cleaned_data, bad)
    /\ \E e \in ErrorTexts : Return(DebugBody(e), StatusServerError)
    /\ UNCHANGED <<args, calls, outcome, response, data, cleaned_data, recleaned>>

Next ==
    \/ Receive
    \/ Validate
    \/ FetchResponse
    \/ FetchTimeout
    \/ FetchRequestException
    \/ FetchException
    \/ CheckStatus
    \/ ParseJson
    \/ CountResults
    \/ Clean
    \/ DumpsOk
    \/ DumpsRaises

Spec == Init /\ [][Next]_vars

\* the steps of the handler once a request is in: the view function runs
\* to its return, and requests.get returns or raises within its timeout
Handle ==
    \/ Validate
    \/ FetchResponse
    \/ FetchTimeout
    \/ FetchRequestException
    \/ FetchException
    \/ CheckStatus
    \/ ParseJson
    \/ CountResults
    \/ Clean
    \/ DumpsOk
    \/ DumpsRaises

FairSpec == Spec /\ WF_vars(Handle)

----------------------------------------------------------------------------
(* The two functions run on a value tree.                                  *)

InitTree ==
    /\ pc = "input"
    /\ data \in Trees(MaxStrLen, MaxInnerLen)
    /\ args = NoArgs
    /\ calls = <<>>
    /\ outcome = "none"
    /\ response = NoResponse
    /\ cleaned_data = PyNone
    /\ recleaned = PyNone
    /\ problematic_field = PyNone
    /\ raising = {}
    /\ replies = <<>>
    /\ served = 0

\* clean_nan_values(data)
RunClean ==
    /\ pc = "input"
    /\ cleaned_data' = clean_nan_values(data)
    /\ pc' = "cleaned"
    /\ UNCHANGED <<args, calls, outcome, response, data, recleaned, problematic_field,
                   raising, replies, served>>

\* clean_nan_values applied to its own result
RunCleanAgain ==
    /\ pc = "cleaned"
    /\ recleaned' = clean_nan_values(cleaned_data)
    /\ pc' = "recleaned"
    /\ UNCHANGED <<args, calls, outcome, response, data, cleaned_data,
                   problematic_field, raising, replies, served>>

\* find_problematic_field(data), json.dumps raising on the strs of bad
RunFind ==
    /\ pc = "input"
    /\ \E bad \in SUBSET RaisingCandidates :
        /\ raising' = bad
        /\ problematic_field' = find_problematic_field(data, bad)
    /\ pc' = "located"
    /\ UNCHANGED <<args, calls, outcome, response, data, cleaned_data, recleaned,
                   replies, served>>

NextTree == RunClean \/ RunCleanAgain \/ RunFind

SpecTree == InitTree /\ [][NextTree]_vars

----------------------------------------------------------------------------
(* What the specification says of the cleaning pass, stated on its own.    *)

\* the banned sentinels: the seven words and the empty string
BannedSentinels == SentinelWords \cup {<<>>}

\* s is a banned sentinel: its trimmed, lower-cased value is one
IsBanned(s) == Lower(Strip(s)) \in BannedSentinels

\* the documented replacement of one code point
DocumentedChar(c) ==
    CASE c = 160 -> <<32>>
      [] c = 178 -> <<32, 115, 113, 109>>
      [] c = 8211 -> <<45>>
      [] c = 8217 -> <<39>>
      [] c = 8226 -> <<45>>
      [] OTHER -> <<c>>

\* the documented stripping: C0 but tab, line feed and carriage return,
\* and DEL and C1
DocumentedStripped(c) ==
    \/ c < 32 /\ c \notin {9, 10, 13}
    \/ c >= 127 /\ c <= 159

RECURSIVE DocumentedSanitize(_)
DocumentedSanitize(s) ==
    IF s = <<>> THEN <<>>
    ELSE (IF DocumentedStripped(Head(s)) THEN <<>> ELSE DocumentedChar(Head(s)))
            \o DocumentedSanitize(Tail(s))

\* v holds no NaN or infinite float and no str that is a banned sentinel
RECURSIVE HoldsNoInvalid(_)
HoldsNoInvalid(v) ==
    /\ v.t = "float" => v.f = "finite"
    /\ v.t = "str" => ~IsBanned(v.s)
    /\ \A i \in DOMAIN v.items : HoldsNoInvalid(v.items[i])

\* out nulls exactly the banned sentinels among the strs of in
RECURSIVE NullsExactlySentinels(_, _)
NullsExactlySentinels(in, out) ==
    IF in.t = "str"
    THEN IF IsBanned(in.s) THEN out = PyNone ELSE out.t = "str"
    ELSE /\ Len(out.items) = Len(in.items)
         /\ \A i \in DOMAIN in.items :
                NullsExactlySentinels(in.items[i], out.items[i])

\* every str of in that is no banned sentinel is in out as documented
RECURSIVE SanitizedAsDocumented(_, _)
SanitizedAsDocumented(in, out) ==
    IF in.t = "str"
    THEN ~IsBanned(in.s) => out = PyStr(DocumentedSanitize(in.s))
    ELSE /\ Len(out.items) = Len(in.items)
         /\ \A i \in DOMAIN in.items :
                SanitizedAsDocumented(in.items[i], out.items[i])

\* the indices of the keys whose sanitized form is not empty, in order
RECURSIVE KeptKeys(_, _)
KeptKeys(keys, i) ==
    IF i > Len(keys) THEN <<>>
    ELSE (IF DocumentedSanitize(keys[i]) # <<>> THEN <<i>> ELSE <<>>)
            \o KeptKeys(keys, i + 1)

\* the dict the specification describes for the dict in
DocumentedDict(in) ==
    LET kept == KeptKeys(in.keys, 1)
    IN  PyDict([j \in DOMAIN kept |-> DocumentedSanitize(in.keys[kept[j]])],
               [j \in DOMAIN kept |-> clean_nan_values(in.items[kept[j]])])

\* the str leaves below v in depth-first order, each with the key it is
\* filed under and whether it sits directly under the top-level object
RECURSIVE StrLeaves(_, _, _)
RECURSIVE LeavesFrom(_, _, _, _)
StrLeaves(v, key, depth) ==
    IF v.t = "str" THEN <<[key |-> key, value |-> v.s, direct |-> depth = 1]>>
    ELSE LeavesFrom(v, key, depth, 1)

LeavesFrom(v, key, depth, i) ==
    IF i > Len(v.items) THEN <<>>
    ELSE StrLeaves(v.items[i], IF v.t = "dict" THEN v.keys[i] ELSE key, depth + 1)
            \o LeavesFrom(v, key, depth, i + 1)

\* the leaves json.dumps raises on
FailingLeaves(v, bad) ==
    SelectSeq(StrLeaves(v, <<>>, 0), LAMBDA leaf : leaf.value \in bad)

\* every str value below v is one cleaning would leave alone: no control
\* character it strips, and no sentinel it nulls
RECURSIVE HoldsNothingToClean(_)
HoldsNothingToClean(v) ==
    /\ v.t = "str" => /\ ~IsInvalidString(v.s)
                      /\ \A i \in DOMAIN v.s : KeepChar(v.s[i])
    /\ \A i \in DOMAIN v.items : HoldsNothingToClean(v.items[i])

----------------------------------------------------------------------------
(* The claims.                                                             *)

\* C1: clean_nan_values returns, for every value tree, a tree that holds
\* no NaN or infinite number and no str that is a banned sentinel
\* (trimmed and lower-cased, one of nan, none, null, infinity, inf, -inf,
\* undefined or the empty string).
C1_NoInvalidLeft == pc = "cleaned" => HoldsNoInvalid(cleaned_data)

\* C2: a request with a suburb whose upstream call returns status 200 and
\* a body that parses, whatever its top-level value, is answered once with
\* status 200 and the cleaned parsed value; a failure of the first
\* serialization does not by itself make the answer a 500.
C2_ParsedBodyAnswered200 ==
    (pc = "done" /\ outcome = "response" /\ response.status_code = 200
        /\ response.decodes)
    => replies = <<Reply(clean_nan_values(response.json), 200)>>

\* C3: every body returned by /api/properties, on the success branch and
\* on every failure branch, has been cleaned: no str value in it holds a
\* control character or is a sentinel that cleaning removes, the upstream
\* text in 'details' and 'response_preview' included.
C3_EveryBodyCleaned ==
    \A i \in DOMAIN replies : HoldsNothingToClean(replies[i].body)

\* C4: cleaning is idempotent: cleaning the cleaned tree changes nothing.
C4_Idempotent == pc = "recleaned" => recleaned = cleaned_data

\* C5: a str, as a scalar, a list item or a dict value, is mapped to None
\* if and only if its trimmed, lower-cased value is a banned sentinel;
\* every other str stays a str.
C5_NullIffSentinel == pc = "cleaned" => NullsExactlySentinels(data, cleaned_data)

\* C6: a str that is no sentinel comes back with NBSP, superscript two,
\* en dash, right single quotation mark and bullet replaced, with the C0
\* controls other than tab, line feed and carriage return removed and with
\* DEL and the C1 range 0x7F..0x9F removed, the rest kept in order.
C6_SanitizedAsDocumented ==
    pc = "cleaned" => SanitizedAsDocumented(data, cleaned_data)

\* C7: cleaning a dict gives a dict of the sanitized keys in the input's
\* order, with exactly the keys dropped whose sanitized form is empty, each
\* kept key mapped to the cleaned value.
C7_KeysSanitized ==
    (pc = "cleaned" /\ data.t = "dict") => cleaned_data = DocumentedDict(data)

\* C8: within one request the upstream is called at most once and never
\* again: not at all when suburb is absent or empty, which is answered 400
\* with {"error": "suburb parameter is required"} before any call, and
\* exactly once otherwise, whatever the outcome of that call.
C8_AtMostOneCall ==
    LET missing == args.suburb \in {PyNone, PyStr(<<>>)}
    IN  /\ Len(calls) <= 1
        /\ pc \in {"idle", "args", "fetch"} => calls = <<>> /\ replies = <<>>
        /\ pc = "fetch" => ~missing
        /\ pc \in {"status", "json", "count", "clean", "dumps"}
            => Len(calls) = 1 /\ replies = <<>>
        /\ (pc = "done" /\ missing)
            => /\ calls = <<>>
               /\ replies = <<Reply(PyDict(<<K_error>>,
                                           <<PyStr(M_suburb_required)>>), 400)>>
        /\ (pc = "done" /\ ~missing) => Len(calls) = 1 /\ Len(replies) = 1

\* C8: a request with a suburb has been answered after its one call.
C8_Witness ==
    /\ pc = "done"
    /\ args.suburb = PyStr(S_Belmont)
    /\ Len(calls) = 1
    /\ calls[1].suburb = PyStr(S_Belmont)
    /\ Len(replies) = 1

\* the reply to the request, once it is answered
TheReply == replies[1]

\* the keys of a body
BodyKeys(body) == Range(body.keys)

\* C9: a request with a suburb whose call yields no usable 200 body ends
\* in exactly one error reply: 504 with {"error": "Request timed out"} for
\* a timeout, 500 for any other failure of the call, the upstream's status
\* with 'error' and 'details' for a status other than 200, and 500 with
\* error, status_code, response_length and a preview of at most 1000
\* characters for a 200 body that does not parse.
C9_ErrorReply ==
    /\ (pc = "done" /\ outcome = "Timeout")
        => replies = <<Reply(PyDict(<<K_error>>, <<PyStr(M_timed_out)>>), 504)>>
    /\ (pc = "done" /\ outcome \in {"RequestException", "Exception"})
        => /\ Len(replies) = 1
           /\ TheReply.status = 500
           /\ BodyKeys(TheReply.body) = {K_error}
    /\ (pc = "done" /\ outcome = "response" /\ response.status_code # 200)
        => /\ Len(replies) = 1
           /\ TheReply.status = response.status_code
           /\ BodyKeys(TheReply.body) = {K_error, K_details}
    /\ (pc = "done" /\ outcome = "response" /\ response.status_code = 200
            /\ ~response.decodes)
        => /\ Len(replies) = 1
           /\ TheReply.status = 500
           /\ BodyKeys(TheReply.body) =
                {K_error, K_status_code, K_response_length, K_response_preview}
           /\ \A i \in DOMAIN TheReply.body.keys :
                TheReply.body.keys[i] = K_response_preview
                    => Len(TheReply.body.items[i].s) <= 1000

\* C9: every such request is answered as C9_ErrorReply says, and the
\* handler, once it has the request, always comes to answer it.
C9_FailureReplies == []C9_ErrorReply /\ ((pc = "args") ~> (pc = "done"))

\* C9: a 200 body longer than the preview that does not parse has been
\* answered.
C9_Witness ==
    /\ pc = "done"
    /\ outcome = "response"
    /\ response.status_code = 200
    /\ ~response.decodes
    /\ Len(response.text) > 1000
    /\ Len(replies) = 1

====
